---- MODULE Spec2Model ----
(***************************************************************************)
(* Run orchestrator of the QC service: processQcRun (qcProcessor.ts), its  *)
(* triggers and the audit sink, over one run document of one tenant.       *)
(*                                                                         *)
(* Every await of processQcRun is one action; the synchronous code between *)
(* two awaits belongs to the action of the await that follows it.  Each    *)
(* store call either commits atomically or rejects (the Fault disjuncts).   *)
(***************************************************************************)
EXTENDS Integers, Sequences, FiniteSets, TLC

\* ---------------------------------------------------------------- bounds
NumInvocations == 2
MaxSmallRules == 2
MaxChats == 2
MaxFaults == 1
Scale == 2
MaxLines == 6

\* ------------------------------------------------------ program constants
maxBatchWrites == 450
chunkSize == 400

Inv == 1..NumInvocations

TenantId == "t1"
RunId == "r1"

RunStatus == {"QUEUED", "RUNNING", "SUCCEEDED", "FAILED", "CANCELLED"}
Terminal == {"SUCCEEDED", "FAILED", "CANCELLED"}

\* A run document without an error field / a thrown value that is no
\* public error (a plain Error has no category and no code).
NoError == [category |-> "NONE", code |-> "NONE", retryable |-> FALSE]
PlainError == [category |-> "", code |-> "Error", retryable |-> FALSE]

\* new ApiError(code, message, status): it has a code and a message but no category.
ApiError(code) == [category |-> "", code |-> code, retryable |-> FALSE]

asPublicError(category, code, retryable) ==
    [category |-> category, code |-> code, retryable |-> retryable]

\* catch (err): a thrown value with category, code and message is kept,
\* anything else becomes EXECUTION / EXECUTION_FAILED.
publicErr(e) ==
    IF e.category # "" /\ e.code # ""
    THEN e
    ELSE asPublicError("EXECUTION", "EXECUTION_FAILED", TRUE)

\* ------------------------------------------------------------ rule engine
\* Weights and thresholds are the multiples k / Scale of 1 / Scale; a weight
\* or threshold is written as its numerator k.
RuleTypes ==
    {"TEXT_REGEX", "TEXT_KEYWORD_BLACKLIST", "TEXT_REQUIRED_PHRASE", "NUMERIC_RANGE",
     "REQUIRED_FIELD", "EXCEL_ALL_CAPS", "EXCEL_REQUIRED_COLUMNS", "AUDIO_DURATION_LIMIT",
     "SLA_TIME_DIFFERENCE", "TONE_CLASSIFICATION", "IMPLIED_ABUSE_DETECTION"}

TextRuleTypes == {"TEXT_REGEX", "TEXT_KEYWORD_BLACKLIST", "TEXT_REQUIRED_PHRASE"}
RecordRuleTypes == {"NUMERIC_RANGE", "REQUIRED_FIELD", "SLA_TIME_DIFFERENCE"}
TableRuleTypes == {"EXCEL_ALL_CAPS", "EXCEL_REQUIRED_COLUMNS"}
AudioRuleTypes == {"AUDIO_DURATION_LIMIT"}
AiRuleTypes == {"TONE_CLASSIFICATION", "IMPLIED_ABUSE_DETECTION"}

InputKinds == {"text", "record", "table", "audio"}

\* The kind handed to assertKind by the evaluator of the type.
expectedKind(type) ==
    CASE type \in RecordRuleTypes -> "record"
      [] type \in TableRuleTypes -> "table"
      [] type \in AudioRuleTypes -> "audio"
      [] OTHER -> "none"

\* A rule carries, next to the fields of RuleBaseSchema, whether its params
\* have a fieldPath, and as `verdict` what its evaluator computes from its
\* params on an input it can read: PASS, FAIL, SKIP (EXCEL_ALL_CAPS without a
\* string cell) or THROW (new RegExp of an invalid pattern).
Verdicts(type) ==
    CASE type = "TEXT_REGEX" -> {"PASS", "FAIL", "THROW"}
      [] type = "EXCEL_ALL_CAPS" -> {"PASS", "FAIL", "SKIP"}
      [] OTHER -> {"PASS", "FAIL"}

\* A normalized input: its kind and, for a record, whether it has a value at
\* the fieldPath of the rules.
Inputs ==
    { [kind |-> k, fieldPresent |-> FALSE] : k \in InputKinds }
    \cup { [kind |-> "record", fieldPresent |-> TRUE] }

TextInput == [kind |-> "text", fieldPresent |-> FALSE]

\* asTextFromInput(input, fieldPath) !== undefined
asTextFromInput(input, fieldPath) ==
    \/ input.kind = "text"
    \/ input.kind = "record" /\ fieldPath /\ input.fieldPresent

resultBase(rule) ==
    [ruleId |-> rule.ruleId, type |-> rule.type, severity |-> rule.severity,
     weight |-> rule.weight]

withOutcome(rule, outcome, score, code) ==
    [ruleId |-> resultBase(rule).ruleId, type |-> resultBase(rule).type,
     severity |-> resultBase(rule).severity, weight |-> resultBase(rule).weight,
     outcome |-> outcome, score |-> score, error |-> code]

pass(rule) == withOutcome(rule, "PASS", 1, "")
fail(rule) == withOutcome(rule, "FAIL", 0, "")
skip(rule) == withOutcome(rule, "SKIP", 1, "")
errorResult(rule) == withOutcome(rule, "ERROR", 0, "RULE_EVALUATION_ERROR")

\* Faulty variant of assertKind: a kind that is not the expected one is let through.
assertKind_lax(input, kind) == TRUE

\* assertKind(input, expectedKind, rule) returns (TRUE) or throws (FALSE)
assertKind(input, kind) == input.kind = kind

\* The switch of evaluateRule: the outcome the evaluator of the rule's type
\* returns, or THROW when it throws.
evalByType(ctx, rule) ==
    CASE rule.type \in TextRuleTypes ->
            IF ~asTextFromInput(ctx.input, rule.fieldPath) THEN "SKIP" ELSE rule.verdict
      [] rule.type \in RecordRuleTypes \cup TableRuleTypes \cup AudioRuleTypes ->
            IF ~assertKind(ctx.input, expectedKind(rule.type)) THEN "THROW" ELSE rule.verdict
      [] rule.type \in AiRuleTypes ->
            IF ~ctx.aiSignals THEN "SKIP" ELSE rule.verdict
      [] OTHER -> "UNSUPPORTED"

\* Faulty variant of evaluateRule: a disabled rule is evaluated like an enabled one.
evaluateRule_ignoresEnabled(ctx, rule) ==
    CASE evalByType(ctx, rule) = "PASS" -> pass(rule)
      [] evalByType(ctx, rule) = "FAIL" -> fail(rule)
      [] evalByType(ctx, rule) = "SKIP" -> skip(rule)
      [] OTHER -> errorResult(rule)

evaluateRule(ctx, rule) ==
    IF ~rule.enabled THEN skip(rule)
    ELSE CASE evalByType(ctx, rule) = "PASS" -> pass(rule)
           [] evalByType(ctx, rule) = "FAIL" -> fail(rule)
           [] evalByType(ctx, rule) = "SKIP" -> skip(rule)
           [] OTHER -> errorResult(rule)

RECURSIVE SumOver(_, _, _, _)
\* results.reduce((sum, r) => sum + f(r), 0) over the results lo..hi that are
\* not SKIP (the sum of the two halves of the range)
SumOver(results, lo, hi, withScore) ==
    IF lo > hi THEN 0
    ELSE IF lo = hi
    THEN (IF results[lo].outcome = "SKIP" THEN 0
          ELSE IF withScore THEN results[lo].score * results[lo].weight
          ELSE results[lo].weight)
    ELSE SumOver(results, lo, (lo + hi) \div 2, withScore)
         + SumOver(results, (lo + hi) \div 2 + 1, hi, withScore)

totalWeight(results) == SumOver(results, 1, Len(results), FALSE)

\* The weighted score as a fraction num / den (1 / 1 when totalWeight <= 0).
weightedScore(results) ==
    IF totalWeight(results) <= 0 THEN [num |-> 1, den |-> 1]
    ELSE [num |-> SumOver(results, 1, Len(results), TRUE), den |-> totalWeight(results)]

\* Math.max(0, Math.min(1, weightedScore))
clamp01(q) ==
    IF q.num < 0 THEN [num |-> 0, den |-> 1]
    ELSE IF q.num > q.den THEN [num |-> 1, den |-> 1]
    ELSE q

\* results.filter((r) => r.outcome === 'FAIL').map((r) => r.ruleId)
RECURSIVE failedIdsIn(_, _, _)
failedIdsIn(results, lo, hi) ==
    IF lo > hi THEN <<>>
    ELSE IF lo = hi
    THEN (IF results[lo].outcome = "FAIL" THEN <<results[lo].ruleId>> ELSE <<>>)
    ELSE failedIdsIn(results, lo, (lo + hi) \div 2)
         \o failedIdsIn(results, (lo + hi) \div 2 + 1, hi)

failedIds(results) == failedIdsIn(results, 1, Len(results))

\* Faulty variant of hasBlockerFail: the override is never applied.
hasBlockerFail_never(results, blockerFailureForcesFail) == FALSE

hasBlockerFail(results, blockerFailureForcesFail) ==
    IF blockerFailureForcesFail
    THEN \E k \in 1..Len(results) :
            results[k].outcome = "FAIL" /\ results[k].severity = "BLOCKER"
    ELSE FALSE

\* weightedScore < passScoreThreshold, the threshold being threshold / Scale
belowThreshold(q, threshold) == q.num * Scale < threshold * q.den

\* if (passScoreThreshold < 0 || passScoreThreshold > 1) throw new QcRuleValidationError
rejectsOptions(options) ==
    options.passScoreThreshold < 0 \/ options.passScoreThreshold > Scale

\* Faulty variant of runQc: the first faulting rule ends the evaluation.
runQc_abortsOnFault(request) ==
    IF rejectsOptions(request.options)
    THEN [threw |-> TRUE, overallOutcome |-> "NONE", overallScore |-> [num |-> 0, den |-> 1],
          failedRuleIds |-> <<>>, ruleResults |-> <<>>]
    ELSE LET ctx == [input |-> request.input, aiSignals |-> request.aiSignals]
             all == [k \in 1..Len(request.rules) |-> evaluateRule(ctx, request.rules[k])]
             bad == {k \in 1..Len(all) : all[k].outcome = "ERROR"}
             results == IF bad = {} THEN all
                        ELSE SubSeq(all, 1, CHOOSE k \in bad : \A j \in bad : k <= j)
         IN  [threw |-> FALSE,
              overallOutcome |->
                  IF \/ hasBlockerFail(results, request.options.blockerFailureForcesFail)
                     \/ belowThreshold(weightedScore(results),
                                       request.options.passScoreThreshold)
                  THEN "FAIL" ELSE "PASS",
              overallScore |-> clamp01(weightedScore(results)),
              failedRuleIds |-> failedIds(results),
              ruleResults |-> results]

runQc(request) ==
    IF rejectsOptions(request.options)
    THEN [threw |-> TRUE, overallOutcome |-> "NONE", overallScore |-> [num |-> 0, den |-> 1],
          failedRuleIds |-> <<>>, ruleResults |-> <<>>]
    ELSE LET ctx == [input |-> request.input, aiSignals |-> request.aiSignals]
             results == [k \in 1..Len(request.rules) |-> evaluateRule(ctx, request.rules[k])]
         IN  [threw |-> FALSE,
              overallOutcome |->
                  IF \/ hasBlockerFail(results, request.options.blockerFailureForcesFail)
                     \/ belowThreshold(weightedScore(results),
                                       request.options.passScoreThreshold)
                  THEN "FAIL" ELSE "PASS",
              overallScore |-> clamp01(weightedScore(results)),
              failedRuleIds |-> failedIds(results),
              ruleResults |-> results]

\* ------------------------------------------------------------ result mapping
RuleStatus == {"PASS", "FAIL", "NOT_EVALUATED", "ERROR"}

\* Faulty variant of ruleOutcomeToStatus: an ERROR is stored as NOT_EVALUATED.
ruleOutcomeToStatus_noError(outcome) ==
    CASE outcome = "PASS" -> "PASS"
      [] outcome = "FAIL" -> "FAIL"
      [] OTHER -> "NOT_EVALUATED"

ruleOutcomeToStatus(outcome) ==
    CASE outcome = "PASS" -> "PASS"
      [] outcome = "FAIL" -> "FAIL"
      [] outcome = "ERROR" -> "ERROR"
      [] OTHER -> "NOT_EVALUATED"

\* Faulty variant of mapRuleResultToDoc: the order is the 1-based position of the rule.
mapRuleResultToDoc_oneBased(order, rule, result) ==
    [order |-> order + 1, ruleId |-> result.ruleId, ruleName |-> rule.name,
     ruleType |-> result.type, weight |-> result.weight, severity |-> result.severity,
     status |-> ruleOutcomeToStatus(result.outcome), score |-> result.score,
     error |-> IF ruleOutcomeToStatus(result.outcome) = "ERROR"
               THEN asPublicError("RULE_EVALUATION",
                                  IF result.error # "" THEN result.error
                                  ELSE "RULE_EVALUATION_ERROR", FALSE)
               ELSE NoError]

mapRuleResultToDoc(order, rule, result) ==
    [order |-> order, ruleId |-> result.ruleId, ruleName |-> rule.name,
     ruleType |-> result.type, weight |-> result.weight, severity |-> result.severity,
     status |-> ruleOutcomeToStatus(result.outcome), score |-> result.score,
     error |-> IF ruleOutcomeToStatus(result.outcome) = "ERROR"
               THEN asPublicError("RULE_EVALUATION",
                                  IF result.error # "" THEN result.error
                                  ELSE "RULE_EVALUATION_ERROR", FALSE)
               ELSE NoError]

\* ------------------------------------------------------------ aggregator
\* Faulty variant of statusRank: ERROR ranks with FAIL.
statusRank_errorAsFail(status) ==
    CASE status = "NOT_EVALUATED" -> 0
      [] status = "PASS" -> 1
      [] status = "FAIL" -> 2
      [] status = "ERROR" -> 2
      [] OTHER -> 0

statusRank(status) ==
    CASE status = "NOT_EVALUATED" -> 0
      [] status = "PASS" -> 1
      [] status = "FAIL" -> 2
      [] status = "ERROR" -> 3
      [] OTHER -> 0

rankToStatus(rank) ==
    IF rank >= 3 THEN "ERROR"
    ELSE IF rank = 2 THEN "FAIL"
    ELSE IF rank = 1 THEN "PASS"
    ELSE "NOT_EVALUATED"

\* Math.max(...values) / Math.min(...values) of a non-empty sequence
MaxOf(values) == CHOOSE v \in {values[k] : k \in DOMAIN values} :
                    \A k \in DOMAIN values : values[k] <= v
MinOf(values) == CHOOSE v \in {values[k] : k \in DOMAIN values} :
                    \A k \in DOMAIN values : v <= values[k]

\* Faulty variant of combineRuleDoc: the combined status is that of the last chat.
combineRuleDoc_lastChat(entries) ==
    [entries[1] EXCEPT
        !.status = entries[Len(entries)].status,
        !.score = MinOf([c \in DOMAIN entries |-> entries[c].score])]

\* The body of the loop over the rules: the docs of rule i in every chat
\* become one doc, { ...entries[0].doc, status, score, reason, evidence }.
combineRuleDoc(entries) ==
    [entries[1] EXCEPT
        !.status = rankToStatus(MaxOf([c \in DOMAIN entries |-> statusRank(entries[c].status)])),
        !.score = MinOf([c \in DOMAIN entries |-> entries[c].score])]

combineAggregatedRuleDocs(perChatRuleDocs) ==
    IF Len(perChatRuleDocs) = 0 THEN <<>>
    ELSE [i \in 1..Len(perChatRuleDocs[1]) |->
             combineRuleDoc([c \in 1..Len(perChatRuleDocs) |-> perChatRuleDocs[c][i]])]

\* a <= b for scores a, b given as fractions num / den
scoreLeq(a, b) == a.num * b.den <= b.num * a.den

\* Math.min(...scores) of a non-empty sequence of scores
MinScore(scores) == CHOOSE v \in {scores[k] : k \in DOMAIN scores} :
                        \A k \in DOMAIN scores : scoreLeq(v, scores[k])

\* chatSummaries.flatMap((c) => c.summary.failedRuleIds ?? [])
RECURSIVE flatFailedRuleIds(_)
flatFailedRuleIds(chatSummaries) ==
    IF chatSummaries = <<>> THEN <<>>
    ELSE Head(chatSummaries).failedRuleIds \o flatFailedRuleIds(Tail(chatSummaries))

\* Array.from(new Set(ids)): the first occurrence of every id, in order
RECURSIVE uniqueIds(_)
uniqueIds(ids) ==
    IF ids = <<>> THEN <<>>
    ELSE IF \E k \in 1..(Len(ids) - 1) : ids[k] = ids[Len(ids)]
    THEN uniqueIds(SubSeq(ids, 1, Len(ids) - 1))
    ELSE Append(uniqueIds(SubSeq(ids, 1, Len(ids) - 1)), ids[Len(ids)])

\* Faulty variant of combineRunSummaryFromChats: the summary of the first chat.
combineRunSummaryFromChats_firstChat(chatSummaries) ==
    [overallOutcome |-> IF chatSummaries # <<>> THEN chatSummaries[1].overallOutcome
                        ELSE "PASS",
     overallScore |-> IF Len(chatSummaries) > 0 THEN chatSummaries[1].overallScore
                      ELSE [num |-> 1, den |-> 1],
     failedRuleIds |-> IF chatSummaries # <<>> THEN chatSummaries[1].failedRuleIds
                       ELSE <<>>]

combineRunSummaryFromChats(chatSummaries) ==
    [overallOutcome |-> IF \E c \in DOMAIN chatSummaries :
                               chatSummaries[c].overallOutcome = "FAIL"
                        THEN "FAIL" ELSE "PASS",
     overallScore |-> IF Len(chatSummaries) > 0
                      THEN MinScore([c \in DOMAIN chatSummaries |->
                                        chatSummaries[c].overallScore])
                      ELSE [num |-> 1, den |-> 1],
     failedRuleIds |-> uniqueIds(flatFailedRuleIds(chatSummaries))]

\* ------------------------------------------------------------ transcript splitter
\* A text is the sequence of its lines.  A line is [kind, id]: what the
\* splitter's patterns make of it, and its number in the text it came in.
minChars == 120

LineKinds == {"BLANK", "TEXT", "CHAT_ID", "SEPARATOR", "OPERATOR", "CUSTOMER"}

\* line.length: a blank line is empty, a line of conversation is long, the
\* lines the patterns match are short
lineLength(line) ==
    CASE line.kind = "BLANK" -> 0
      [] line.kind = "TEXT" -> minChars
      [] line.kind = "CHAT_ID" -> 12
      [] line.kind = "SEPARATOR" -> 5
      [] OTHER -> 15

\* text.trim() on lines: the blank lines at both ends are dropped
RECURSIVE trimLines(_)
trimLines(lines) ==
    IF lines = <<>> THEN <<>>
    ELSE IF Head(lines).kind = "BLANK" THEN trimLines(Tail(lines))
    ELSE IF lines[Len(lines)].kind = "BLANK" THEN trimLines(SubSeq(lines, 1, Len(lines) - 1))
    ELSE lines

\* lines.slice(startLine, endLineExclusive).join('\n').trim()
rebuildFromLines(lines, startLine, endLineExclusive) ==
    trimLines(SubSeq(lines, startLine + 1, endLineExclusive))

\* text.length of a text rebuilt from lines: their characters and the
\* newlines between them
RECURSIVE textLength(_)
textLength(lines) ==
    IF lines = <<>> THEN 0
    ELSE IF Len(lines) = 1 THEN lineLength(lines[1])
    ELSE lineLength(Head(lines)) + 1 + textLength(Tail(lines))

isSeparatorLine(line) == line.kind = "SEPARATOR"

\* parseLabeledParticipant(line): the role, "NONE" for null
parseLabeledParticipant(line) ==
    CASE line.kind = "OPERATOR" -> "operator"
      [] line.kind = "CUSTOMER" -> "customer"
      [] OTHER -> "NONE"

\* findChatIdHeader(line) # null
findChatIdHeader(line) == line.kind = "CHAT_ID"

\* The chatId of a header line, the name of a labeled participant line.
chatIdOf(line) == <<"id", line.id>>
nameOf(line) == <<"name", line.id>>

\* [...new Set(startLines)].sort((a, b) => a - b)
RECURSIVE sortedStarts(_)
sortedStarts(startLines) ==
    IF startLines = {} THEN <<>>
    ELSE LET least == CHOOSE a \in startLines : \A b \in startLines : a <= b
         IN  <<least>> \o sortedStarts(startLines \ {least})

computeSegmentsFromStarts(lines, startLines) ==
    LET sorted == sortedStarts(startLines)
        all == [i \in 1..Len(sorted) |->
                  [start |-> sorted[i],
                   end |-> IF i + 1 <= Len(sorted) THEN sorted[i + 1] ELSE Len(lines)]]
        nonEmpty(seg) == seg.start < seg.end
    IN  SelectSeq(all, nonEmpty)

\* Faulty variant of filterNonTrivialSegments: every segment is kept.
filterNonTrivialSegments_keepsAll(lines, segments) == segments

filterNonTrivialSegments(lines, segments) ==
    LET nonTrivial(seg) == textLength(rebuildFromLines(lines, seg.start, seg.end)) >= minChars
    IN  SelectSeq(segments, nonTrivial)

\* The lines (from 0) that start a chat for each strategy.
chatIdStarts(lines) == {i \in 0..(Len(lines) - 1) : findChatIdHeader(lines[i + 1])}

\* the next non-empty line after each separator line, if there is one
sepStarts(lines) ==
    {j \in 0..(Len(lines) - 1) :
        \E i \in 0..(j - 1) :
            /\ isSeparatorLine(lines[i + 1])
            /\ lines[j + 1].kind # "BLANK"
            /\ \A k \in (i + 1)..(j - 1) : lines[k + 1].kind = "BLANK"}

\* the first labeled line among the up to nine lines after line i, -1 if none
otherParticipant(lines, i) ==
    LET labeled == {j \in (i + 1)..(i + 9) :
                       /\ j < Len(lines)
                       /\ parseLabeledParticipant(lines[j + 1]) # "NONE"}
    IN  IF labeled = {} THEN -1
        ELSE CHOOSE j \in labeled : \A k \in labeled : j <= k

\* a labeled line followed by a line labeled with the other role
participantStarts(lines) ==
    {i \in 0..(Len(lines) - 1) :
        /\ parseLabeledParticipant(lines[i + 1]) # "NONE"
        /\ otherParticipant(lines, i) # -1
        /\ parseLabeledParticipant(lines[otherParticipant(lines, i) + 1])
             # parseLabeledParticipant(lines[i + 1])}

\* The title of the chat that starts with a block of the two participants.
participantsTitle(lines, i) ==
    IF parseLabeledParticipant(lines[i + 1]) = "operator"
    THEN <<nameOf(lines[i + 1]), "to", nameOf(lines[otherParticipant(lines, i) + 1])>>
    ELSE <<nameOf(lines[otherParticipant(lines, i) + 1]), "to", nameOf(lines[i + 1])>>

\* Faulty variant of enoughChats: one usable segment is enough.
enoughChats_one(usable) == Len(usable) >= 1

\* if (usable.length >= 2)
enoughChats(usable) == Len(usable) >= 2

splitTranscriptIntoChats(text) ==
    LET lines == trimLines(text)
        usableIds == filterNonTrivialSegments(lines,
                         computeSegmentsFromStarts(lines, chatIdStarts(lines)))
        usableSeps == filterNonTrivialSegments(lines,
                          computeSegmentsFromStarts(lines, {0} \cup sepStarts(lines)))
        usableBlocks == filterNonTrivialSegments(lines,
                            computeSegmentsFromStarts(lines, participantStarts(lines)))
    IN  IF lines = <<>>
        THEN [strategy |-> "SINGLE", warning |-> "No text found to split.",
              chats |-> << [index |-> 0, title |-> <<"Chat", 1>>, text |-> <<>>] >>]
        ELSE IF Cardinality(chatIdStarts(lines)) >= 2 /\ enoughChats(usableIds)
        THEN [strategy |-> "CHAT_ID", warning |-> "",
              chats |-> [idx \in 1..Len(usableIds) |->
                            [index |-> idx - 1,
                             title |-> <<"Chat", chatIdOf(lines[usableIds[idx].start + 1])>>,
                             text |-> rebuildFromLines(lines, usableIds[idx].start,
                                                       usableIds[idx].end)]]]
        ELSE IF Cardinality(sepStarts(lines)) >= 1 /\ enoughChats(usableSeps)
        THEN [strategy |-> "SEPARATORS", warning |-> "",
              chats |-> [idx \in 1..Len(usableSeps) |->
                            [index |-> idx - 1, title |-> <<"Chat", idx>>,
                             text |-> rebuildFromLines(lines, usableSeps[idx].start,
                                                       usableSeps[idx].end)]]]
        ELSE IF Cardinality(participantStarts(lines)) >= 2 /\ enoughChats(usableBlocks)
        THEN [strategy |-> "SPEAKER_BLOCKS", warning |-> "",
              chats |-> [idx \in 1..Len(usableBlocks) |->
                            [index |-> idx - 1,
                             title |-> participantsTitle(lines, usableBlocks[idx].start),
                             text |-> rebuildFromLines(lines, usableBlocks[idx].start,
                                                       usableBlocks[idx].end)]]]
        ELSE [strategy |-> "SINGLE", warning |-> "Could not reliably detect multiple chats",
              chats |-> << [index |-> 0, title |-> <<"Chat", 1>>, text |-> lines] >>]

\* The text whose lines are of the given kinds, each line numbered by its place.
Text(kinds) == [k \in 1..Len(kinds) |-> [kind |-> kinds[k], id |-> k]]

\* ------------------------------------------------------------ rules explored
Rule(type, enabled, severity, weight, fieldPath, verdict) ==
    [ruleId |-> <<"rule", 0>>, name |-> <<"name", 0>>, type |-> type, enabled |-> enabled,
     severity |-> severity, weight |-> weight, fieldPath |-> fieldPath, verdict |-> verdict]

\* The rule as the k-th rule of a list: ruleId and name are its own.
Numbered(rule, k) == [rule EXCEPT !.ruleId = <<"rule", k>>, !.name = <<"name", k>>]

\* A rule that passes on every text.
FillerRule == Rule("TEXT_REQUIRED_PHRASE", TRUE, "MAJOR", Scale, FALSE, "PASS")

\* Two rules whose evaluation of a text faults: an invalid pattern, and a
\* record rule.
InvalidRegexRule == Rule("TEXT_REGEX", TRUE, "MAJOR", Scale, FALSE, "THROW")
RecordOnlyRule == Rule("NUMERIC_RANGE", TRUE, "BLOCKER", Scale, FALSE, "PASS")

\* Every type with every verdict of its evaluator, enabled and disabled.
KindRules ==
    UNION { { Rule(t, e, "MAJOR", Scale, fp, v) :
                e \in BOOLEAN,
                fp \in (IF t \in TextRuleTypes THEN BOOLEAN ELSE {FALSE}),
                v \in Verdicts(t) } : t \in RuleTypes }

\* The rules of the lists: every severity class, weight and verdict of a text
\* rule, a disabled rule and the two faulting rules.
ListRules ==
    { Rule("TEXT_REQUIRED_PHRASE", TRUE, s, w, FALSE, v) :
        s \in {"BLOCKER", "MINOR"}, w \in 0..Scale, v \in {"PASS", "FAIL"} }
    \cup { Rule("TEXT_REQUIRED_PHRASE", FALSE, "BLOCKER", Scale, FALSE, "FAIL"),
           InvalidRegexRule, RecordOnlyRule }

RuleLists ==
    UNION { { [k \in 1..n |-> Numbered(f[k], k)] : f \in [1..n -> ListRules] } :
              n \in 0..MaxSmallRules }

\* options of runQc: thresholds in and just outside [0, 1]
Options ==
    { [passScoreThreshold |-> t, blockerFailureForcesFail |-> b] :
        t \in (-1)..(Scale + 1), b \in BOOLEAN }

\* options: { passScoreThreshold: 1, blockerFailureForcesFail: true }
RunOptions == [passScoreThreshold |-> Scale, blockerFailureForcesFail |-> TRUE]

RunQcRequests ==
    { [input |-> in, aiSignals |-> ai, rules |-> <<Numbered(r, 1)>>, options |-> RunOptions] :
        in \in Inputs, ai \in BOOLEAN, r \in KindRules }
    \cup { [input |-> in, aiSignals |-> FALSE, rules |-> rs, options |-> o] :
             in \in {TextInput, [kind |-> "record", fieldPresent |-> FALSE]},
             rs \in RuleLists, o \in Options }

\* The docs of the rules in every chat, by the outcomes of the rules in the chats.
ChatDocs(outcomes) ==
    [c \in 1..Len(outcomes) |->
        [k \in 1..Len(outcomes[c]) |->
            mapRuleResultToDoc(k - 1, Numbered(FillerRule, k),
                withOutcome(Numbered(FillerRule, k), outcomes[c][k],
                            IF outcomes[c][k] \in {"PASS", "SKIP"} THEN 1 ELSE 0,
                            IF outcomes[c][k] = "ERROR" THEN "RULE_EVALUATION_ERROR" ELSE ""))]]

\* The aggregator's arguments: up to MaxChats chats of one rule or of two.
CombineRequests ==
    UNION { { ChatDocs(o) : o \in [1..c -> [1..n -> {"PASS", "FAIL", "SKIP", "ERROR"}]] } :
              c \in 1..MaxChats, n \in 1..2 }

\* The summaries of a chat: each outcome with each score and with the failed
\* rules among two.
ChatSummaries ==
    [overallOutcome : {"PASS", "FAIL"},
     overallScore : {[num |-> a, den |-> Scale] : a \in 0..Scale},
     failedRuleIds : {<<>>, << <<"rule", 1>> >>, << <<"rule", 2>> >>,
                      << <<"rule", 1>>, <<"rule", 2>> >>}]

\* The arguments of combineRunSummaryFromChats: no chat, up to MaxChats chats.
SummaryRequests == UNION { [1..c -> ChatSummaries] : c \in 0..MaxChats }

\* ------------------------------------------------------------ inputs
\* A storage path is the sequence of its segments; <<>> is a missing path.
expectedPrefix == <<"tenants", TenantId, "uploads", RunId>>

\* Faulty variant of startsWith: the last segment of the prefix (the run) is not compared.
startsWith_ignoresRun(path, prefix) ==
    /\ Len(path) >= Len(prefix)
    /\ \A k \in 1..(Len(prefix) - 1) : path[k] = prefix[k]

startsWith(path, prefix) ==
    /\ Len(path) >= Len(prefix)
    /\ \A k \in 1..Len(prefix) : path[k] = prefix[k]

StoragePaths ==
    { <<>>,
      <<"tenants", TenantId, "uploads", RunId, "f">>,
      <<"tenants", TenantId, "uploads", "r2", "f">>,
      <<"tenants", "t2", "uploads", RunId, "f">> }

\* What loadInputForRun meets when it fetches through the integration: the
\* integration document, the connector registry, the credential reference and
\* the upstream service.
IntegrationStates ==
    {"OK", "NOT_FOUND", "UNKNOWN_CONNECTOR", "MISSING_CREDENTIAL", "OAUTH", "HTTP_ERROR"}

InputRefs ==
    { [inputSource |-> "INLINE", storagePath |-> <<>>, integration |-> "NONE"] }
    \cup { [inputSource |-> "INTEGRATION", storagePath |-> <<>>, integration |-> g] :
             g \in IntegrationStates }
    \cup { [inputSource |-> "UPLOAD", storagePath |-> p, integration |-> "NONE"] :
             p \in StoragePaths }

\* What the failing integration fetch throws: new Error(...) in loadInputForRun,
\* new ApiError('FAILED_PRECONDITION', ...) in the registry and the connector.
integrationError(state) ==
    IF state \in {"UNKNOWN_CONNECTOR", "HTTP_ERROR"}
    THEN ApiError("FAILED_PRECONDITION")
    ELSE PlainError

\* Rule counts of the snapshot: small ones, and the two around the
\* single-batch ceiling (the larger of which needs two chunks).
SmallRuleCounts == {0, MaxSmallRules}
LargeRuleCounts == {maxBatchWrites - 2, maxBatchWrites - 1}

InlineRef == [inputSource |-> "INLINE", storagePath |-> <<>>, integration |-> "NONE"]

\* The runs explored: inline inputs with a small snapshot and every chat
\* count, with a large snapshot and one chat, with a large snapshot and two
\* chats, every other input reference with a small single-chat input, and
\* two runs whose snapshot holds a rule that faults on a text.
Scenarios ==
    { [ref |-> InlineRef, rules |-> n, chats |-> c, leading |-> <<>>] :
        n \in SmallRuleCounts, c \in 1..MaxChats }
    \cup { [ref |-> InlineRef, rules |-> n, chats |-> 1, leading |-> <<>>] :
             n \in LargeRuleCounts }
    \cup { [ref |-> InlineRef, rules |-> maxBatchWrites - 1, chats |-> 2, leading |-> <<>>] }
    \cup { [ref |-> r, rules |-> MaxSmallRules, chats |-> 1, leading |-> <<>>] :
             r \in InputRefs }
    \cup { [ref |-> InlineRef, rules |-> 1, chats |-> 1,
            leading |-> <<InvalidRegexRule>>],
           [ref |-> InlineRef, rules |-> 2, chats |-> 2,
            leading |-> <<FillerRule, RecordOnlyRule>>] }

VARIABLES
    run,          \* the qc_runs document
    ruleCount,    \* length of the rule snapshot of the run's template version
    chatCount,    \* number of chats splitTranscriptIntoChats finds in the input
    results,      \* qc_run_results documents with their subcollections, by resultId
    audit,        \* audit_logs documents with action QC_RUN_PROCESS, by writer
    faults,       \* number of store calls rejected so far
    pc,           \* position of each invocation of processQcRun
    txSaw,        \* run.status as read inside the invocation's first transaction
    promoted,     \* the invocation's first transaction wrote RUNNING
    thrown,       \* the value the try block threw
    failedAt,     \* the step that threw it
    committed,    \* the invocation's final commit wrote SUCCEEDED
    cursor,       \* loop variable i of the chunk loops
    chatIdx,      \* position in chatSummaries
    ruleSnapshot, \* the leading rules of the rule snapshot; FillerRule follows them
    normalizedInput,  \* the normalized input of the run
    call,         \* the function of the engine or the aggregator that was called
    request,      \* its argument
    response      \* what it returned

vars == <<run, ruleCount, chatCount, results, audit, faults, pc, txSaw, promoted,
          thrown, failedAt, committed, cursor, chatIdx, ruleSnapshot, normalizedInput,
          call, request, response>>

locals == <<txSaw, promoted, thrown, failedAt, committed, cursor, chatIdx>>

snapshot == <<ruleCount, chatCount, ruleSnapshot, normalizedInput>>

engine == <<call, request, response>>

orchestrator == <<run, snapshot, results, audit, faults, pc, locals>>

NoResultId == 0

NoResult ==
    [exists |-> FALSE, writeState |-> "ABSENT", expectedRuleCount |-> -1,
     ruleResults |-> <<>>, chatResults |-> <<>>]

Min(a, b) == IF a < b THEN a ELSE b

\* The rule docs of an invocation are told apart by their order field, which
\* mapRuleResultToDoc sets to the position of the rule; docs created by one
\* commit are recorded as the range [from, to) of their order values.

\* Faulty variant of slice: the chunk ends one doc early (slice(i, i + chunkSize - 1)).
slice_dropsLast(n, from, to) == [from |-> from, to |-> Min(to, n) - 1]

\* docs.slice(from, to) of n docs
slice(n, from, to) == [from |-> from, to |-> Min(to, n)]

\* The order values of the rule-result documents created by the commits.
Orders(commits) == UNION { c.from .. (c.to - 1) : c \in {commits[k] : k \in DOMAIN commits} }

\* The number of rule-result documents created by the commits.
RECURSIVE NumDocs(_)
NumDocs(commits) ==
    IF commits = <<>> THEN 0
    ELSE (Head(commits).to - Head(commits).from) + NumDocs(Tail(commits))

multiChatEnabled(chats) == chats >= 2

\* Faulty variant of totalWritesNeeded: the run update is not counted.
totalWritesNeeded_noRunUpdate(n) == 1 + n

totalWritesNeeded(n) == 1 + n + 1

canSingleBatch(multi, n) == ~multi /\ totalWritesNeeded(n) <= maxBatchWrites

\* ------------------------------------------------------------ evaluation
\* rules[p], the rule at position p (from 0) of the run's rule snapshot
ruleAt(p) ==
    Numbered(IF p < Len(ruleSnapshot) THEN ruleSnapshot[p + 1] ELSE FillerRule, p + 1)

\* The request of the run's call of runQc; aiSignals are never passed.  (Each
\* chat of a multi-chat run is a text too.)
runRequest ==
    [input |-> normalizedInput, aiSignals |-> FALSE, options |-> RunOptions]

\* docs[p] of one chat: mapRuleResultToDoc({ order: i, rule: rules[i], result: rr })
perChatRuleDoc(p) ==
    mapRuleResultToDoc(p, ruleAt(p),
        evaluateRule([input |-> TextInput, aiSignals |-> FALSE], ruleAt(p)))

\* aggregatedRuleDocs[p]: the combined doc of the chats of a multi-chat run,
\* the mapped result of rule p otherwise.
aggregatedRuleDoc(p) ==
    IF multiChatEnabled(chatCount)
    THEN combineRuleDoc([c \in 1..chatCount |-> perChatRuleDoc(p)])
    ELSE mapRuleResultToDoc(p, ruleAt(p),
             evaluateRule([input |-> normalizedInput, aiSignals |-> FALSE], ruleAt(p)))

\* No function of the engine is being called.
EngineIdle ==
    /\ call = "none"
    /\ request = <<>>
    /\ response = <<>>

\* A run as POST /v1/qc-runs creates it, before any invocation.
InitRun(sc) ==
    /\ run = [status |-> "QUEUED", error |-> NoError, resultId |-> NoResultId,
              inputSource |-> sc.ref.inputSource, storagePath |-> sc.ref.storagePath,
              integration |-> sc.ref.integration]
    /\ ruleCount = sc.rules
    /\ chatCount = sc.chats
    /\ ruleSnapshot = sc.leading
    /\ normalizedInput = TextInput
    /\ results = [r \in Inv |-> NoResult]
    /\ audit = [i \in Inv |-> <<>>]
    /\ faults = 0
    /\ pc = [i \in Inv |-> "idle"]
    /\ txSaw = [i \in Inv |-> "NONE"]
    /\ promoted = [i \in Inv |-> FALSE]
    /\ thrown = [i \in Inv |-> NoError]
    /\ failedAt = [i \in Inv |-> "none"]
    /\ committed = [i \in Inv |-> FALSE]
    /\ cursor = [i \in Inv |-> 0]
    /\ chatIdx = [i \in Inv |-> 0]

Init ==
    /\ \E sc \in Scenarios : InitRun(sc)
    /\ EngineIdle

\* ------------------------------------------------------------ helpers
Goto(i, label) == pc' = [pc EXCEPT ![i] = label]

\* A store call (Firestore, Storage, Secret Manager) rejects.
StoreFault ==
    /\ faults < MaxFaults
    /\ faults' = faults + 1

\* An exception inside the try block: control passes to the catch clause and
\* the block-scoped loop variables are gone.
Throw(i, e, step) ==
    /\ thrown' = [thrown EXCEPT ![i] = e]
    /\ failedAt' = [failedAt EXCEPT ![i] = step]
    /\ cursor' = [cursor EXCEPT ![i] = 0]
    /\ chatIdx' = [chatIdx EXCEPT ![i] = 0]
    /\ Goto(i, "catch")

\* An exception outside the try block rejects the invocation's promise.
Reject(i) == Goto(i, "threw")

\* Faulty variant of canPromote: the transaction only skips runs that are RUNNING or finished.
canPromote_unlessStarted(status) == status \notin {"RUNNING", "SUCCEEDED", "FAILED"}

\* if (run.status === 'CANCELLED') return; if (run.status !== 'QUEUED') return;
canPromote(status) == status # "CANCELLED" /\ status = "QUEUED"

\* processQcRun as called by qcRunCreatedV2 / POST /v1/qc-runs, up to the
\* commit of its first transaction.
BeginTx(i) ==
    /\ pc[i] = "idle"
    /\ \/ /\ canPromote(run.status)
          /\ run' = [run EXCEPT !.status = "RUNNING"]
          /\ txSaw' = [txSaw EXCEPT ![i] = run.status]
          /\ promoted' = [promoted EXCEPT ![i] = TRUE]
          /\ Goto(i, "reread")
          /\ UNCHANGED faults
       \/ /\ ~canPromote(run.status)
          /\ txSaw' = [txSaw EXCEPT ![i] = run.status]
          /\ Goto(i, "reread")
          /\ UNCHANGED <<run, promoted, faults>>
       \/ /\ StoreFault
          /\ Reject(i)
          /\ UNCHANGED <<run, txSaw, promoted>>
    /\ UNCHANGED <<snapshot, engine, results, audit, thrown, failedAt, committed, cursor, chatIdx>>

\* Faulty variant of shouldProcess: a FAILED run is processed again.
shouldProcess_retriesFailed(status) == status \in {"RUNNING", "FAILED"}

\* const run = (await runRef.get()).data(); if (run.status !== 'RUNNING') return;
shouldProcess(status) == status = "RUNNING"

Reread(i) ==
    /\ pc[i] = "reread"
    /\ \/ /\ shouldProcess(run.status)
          /\ Goto(i, "loadRules")
          /\ UNCHANGED faults
       \/ /\ ~shouldProcess(run.status)
          /\ Goto(i, "done")
          /\ UNCHANGED faults
       \/ /\ StoreFault
          /\ Reject(i)
    /\ UNCHANGED <<run, snapshot, engine, results, audit, locals>>

\* fetchTemplateVersion / fetchTemplateRules and QcRuleDefinitionSchema.parse
LoadRules(i) ==
    /\ pc[i] = "loadRules"
    /\ \/ /\ Goto(i, "loadInput")
          /\ UNCHANGED <<faults, thrown, failedAt, cursor, chatIdx>>
       \/ /\ StoreFault
          /\ Throw(i, PlainError, "loadRules")
    /\ UNCHANGED <<run, snapshot, engine, results, audit, txSaw, promoted, committed>>

\* The upload reference checks, the download / loadInputForRun, the split,
\* runQc and the mapping to rule docs, up to the first persistence await.
LoadInput(i) ==
    /\ pc[i] = "loadInput"
    /\ \/ /\ run.inputSource = "UPLOAD"
          /\ run.storagePath = <<>>
          /\ Throw(i, asPublicError("VALIDATION", "UPLOAD_MISSING_STORAGE_PATH", FALSE),
                   "validate")
          /\ UNCHANGED faults
       \/ /\ run.inputSource = "UPLOAD"
          /\ run.storagePath # <<>>
          /\ ~startsWith(run.storagePath, expectedPrefix)
          /\ Throw(i, asPublicError("VALIDATION", "UPLOAD_INVALID_STORAGE_PATH", FALSE),
                   "validate")
          /\ UNCHANGED faults
       \/ /\ run.inputSource = "INTEGRATION"
          /\ run.integration # "OK"
          /\ Throw(i, integrationError(run.integration), "loadInput")
          /\ UNCHANGED faults
       \/ /\ run.inputSource = "UPLOAD" => startsWith(run.storagePath, expectedPrefix)
          /\ run.inputSource = "INTEGRATION" => run.integration = "OK"
          /\ IF rejectsOptions(runRequest.options)
             THEN Throw(i, [category |-> "", code |-> "QC_RULE_VALIDATION_ERROR",
                            retryable |-> FALSE], "evaluate")
             ELSE /\ Goto(i, IF canSingleBatch(multiChatEnabled(chatCount), ruleCount)
                             THEN "singleBatch" ELSE "createResult")
                  /\ UNCHANGED <<thrown, failedAt, cursor, chatIdx>>
          /\ UNCHANGED faults
       \/ /\ run.inputSource = "UPLOAD" => startsWith(run.storagePath, expectedPrefix)
          /\ StoreFault
          /\ Throw(i, PlainError, "loadInput")
    /\ UNCHANGED <<run, snapshot, engine, results, audit, txSaw, promoted, committed>>

\* ------------------------------------------------------------ persistence
\* Single atomic batch: the result, its rule results and the run update.
SingleBatch(i) ==
    /\ pc[i] = "singleBatch"
    /\ \/ /\ results' = [results EXCEPT ![i] =
                 [exists |-> TRUE, writeState |-> "ABSENT", expectedRuleCount |-> -1,
                  ruleResults |-> <<slice(ruleCount, 0, ruleCount)>>, chatResults |-> <<>>]]
          /\ run' = [run EXCEPT !.status = "SUCCEEDED", !.resultId = i]
          /\ committed' = [committed EXCEPT ![i] = TRUE]
          /\ Goto(i, "auditOk")
          /\ UNCHANGED <<faults, thrown, failedAt, cursor, chatIdx>>
       \/ /\ StoreFault
          /\ Throw(i, PlainError, "persist")
          /\ UNCHANGED <<results, run, committed>>
    /\ UNCHANGED <<snapshot, engine, audit, txSaw, promoted>>

\* Where the two-phase path continues when a chunk loop is left: the next
\* chat of chatSummaries, or the final transaction.
afterChunks(multi, chats, nextChat) ==
    IF multi /\ nextChat < chats THEN "chatCreate" ELSE "finalTx"

\* Faulty variant of CreateResult: the new Result starts from the rule results an
\* earlier attempt has left behind.
CreateResult_keepsEarlier(i) ==
    /\ pc[i] = "createResult"
    /\ \/ /\ results' = [results EXCEPT ![i] =
                 [exists |-> TRUE, writeState |-> "WRITING", expectedRuleCount |-> ruleCount,
                  ruleResults |-> IF \E k \in Inv \ {i} : results[k].exists
                                  THEN results[CHOOSE k \in Inv \ {i} : results[k].exists].ruleResults
                                  ELSE <<>>,
                  chatResults |-> <<>>]]
          /\ Goto(i, IF 0 < ruleCount THEN "aggChunk"
                     ELSE afterChunks(multiChatEnabled(chatCount), chatCount, 0))
          /\ UNCHANGED <<faults, thrown, failedAt, cursor, chatIdx>>
       \/ /\ StoreFault
          /\ Throw(i, PlainError, "persist")
          /\ UNCHANGED results
    /\ UNCHANGED <<run, snapshot, engine, audit, txSaw, promoted, committed>>

\* Phase one: await resultRef.create({ ..., writeState: 'WRITING', expectedRuleCount })
CreateResult(i) ==
    /\ pc[i] = "createResult"
    /\ \/ /\ results' = [results EXCEPT ![i] =
                 [exists |-> TRUE, writeState |-> "WRITING", expectedRuleCount |-> ruleCount,
                  ruleResults |-> <<>>, chatResults |-> <<>>]]
          /\ Goto(i, IF 0 < ruleCount THEN "aggChunk"
                     ELSE afterChunks(multiChatEnabled(chatCount), chatCount, 0))
          /\ UNCHANGED <<faults, thrown, failedAt, cursor, chatIdx>>
       \/ /\ StoreFault
          /\ Throw(i, PlainError, "persist")
          /\ UNCHANGED results
    /\ UNCHANGED <<run, snapshot, engine, audit, txSaw, promoted, committed>>

\* Faulty variant of WriteAggChunk: each chunk replaces the rule results written so far.
WriteAggChunk_overwrites(i) ==
    /\ pc[i] = "aggChunk"
    /\ \/ /\ results' = [results EXCEPT ![i].ruleResults =
                 <<slice(ruleCount, cursor[i], cursor[i] + chunkSize)>>]
          /\ IF cursor[i] + chunkSize < ruleCount
             THEN /\ cursor' = [cursor EXCEPT ![i] = @ + chunkSize]
                  /\ Goto(i, "aggChunk")
             ELSE /\ cursor' = [cursor EXCEPT ![i] = 0]
                  /\ Goto(i, afterChunks(multiChatEnabled(chatCount), chatCount, 0))
          /\ UNCHANGED <<faults, thrown, failedAt, chatIdx>>
       \/ /\ StoreFault
          /\ Throw(i, PlainError, "persist")
          /\ UNCHANGED results
    /\ UNCHANGED <<run, snapshot, engine, audit, txSaw, promoted, committed>>

\* One iteration of  for (let i = 0; i < aggregatedRuleDocs.length; i += chunkSize)
WriteAggChunk(i) ==
    /\ pc[i] = "aggChunk"
    /\ \/ /\ results' = [results EXCEPT ![i].ruleResults =
                 Append(@, slice(ruleCount, cursor[i], cursor[i] + chunkSize))]
          /\ IF cursor[i] + chunkSize < ruleCount
             THEN /\ cursor' = [cursor EXCEPT ![i] = @ + chunkSize]
                  /\ Goto(i, "aggChunk")
             ELSE /\ cursor' = [cursor EXCEPT ![i] = 0]
                  /\ Goto(i, afterChunks(multiChatEnabled(chatCount), chatCount, 0))
          /\ UNCHANGED <<faults, thrown, failedAt, chatIdx>>
       \/ /\ StoreFault
          /\ Throw(i, PlainError, "persist")
          /\ UNCHANGED results
    /\ UNCHANGED <<run, snapshot, engine, audit, txSaw, promoted, committed>>

\* await chatRef.create({ chatResultId, index, title, summary, ... })
CreateChatResult(i) ==
    /\ pc[i] = "chatCreate"
    /\ \/ /\ results' = [results EXCEPT ![i].chatResults =
                 Append(@, [index |-> chatIdx[i], ruleResults |-> <<>>])]
          /\ IF 0 < ruleCount
             THEN /\ Goto(i, "chatChunk")
                  /\ UNCHANGED chatIdx
             ELSE /\ Goto(i, afterChunks(TRUE, chatCount, chatIdx[i] + 1))
                  /\ chatIdx' = [chatIdx EXCEPT ![i] =
                         IF @ + 1 < chatCount THEN @ + 1 ELSE 0]
          /\ UNCHANGED <<faults, thrown, failedAt, cursor>>
       \/ /\ StoreFault
          /\ Throw(i, PlainError, "persist")
          /\ UNCHANGED results
    /\ UNCHANGED <<run, snapshot, engine, audit, txSaw, promoted, committed>>

\* One iteration of  for (let i = 0; i < perDocs.length; i += chunkSize)
WriteChatChunk(i) ==
    /\ pc[i] = "chatChunk"
    /\ \/ /\ results' = [results EXCEPT ![i].chatResults[chatIdx[i] + 1].ruleResults =
                 Append(@, slice(ruleCount, cursor[i], cursor[i] + chunkSize))]
          /\ IF cursor[i] + chunkSize < ruleCount
             THEN /\ cursor' = [cursor EXCEPT ![i] = @ + chunkSize]
                  /\ Goto(i, "chatChunk")
                  /\ UNCHANGED chatIdx
             ELSE /\ cursor' = [cursor EXCEPT ![i] = 0]
                  /\ Goto(i, afterChunks(TRUE, chatCount, chatIdx[i] + 1))
                  /\ chatIdx' = [chatIdx EXCEPT ![i] =
                         IF @ + 1 < chatCount THEN @ + 1 ELSE 0]
          /\ UNCHANGED <<faults, thrown, failedAt>>
       \/ /\ StoreFault
          /\ Throw(i, PlainError, "persist")
          /\ UNCHANGED results
    /\ UNCHANGED <<run, snapshot, engine, audit, txSaw, promoted, committed>>

\* Faulty variant of FinalTx: the transaction updates the run but not the result.
FinalTx_noFlip(i) ==
    /\ pc[i] = "finalTx"
    /\ \/ /\ run.status = "RUNNING"
          /\ run' = [run EXCEPT !.status = "SUCCEEDED", !.resultId = i]
          /\ committed' = [committed EXCEPT ![i] = TRUE]
          /\ Goto(i, "auditOk")
          /\ UNCHANGED <<results, faults, thrown, failedAt, cursor, chatIdx>>
       \/ /\ run.status # "RUNNING"
          /\ Goto(i, "auditOk")
          /\ UNCHANGED <<results, run, committed, faults, thrown, failedAt, cursor, chatIdx>>
       \/ /\ StoreFault
          /\ Throw(i, PlainError, "finalTx")
          /\ UNCHANGED <<results, run, committed>>
    /\ UNCHANGED <<snapshot, engine, audit, txSaw, promoted>>

\* Phase two: the transaction that flips the result and the run together.
FinalTx(i) ==
    /\ pc[i] = "finalTx"
    /\ \/ /\ run.status = "RUNNING"
          /\ results' = [results EXCEPT ![i].writeState = "COMPLETE"]
          /\ run' = [run EXCEPT !.status = "SUCCEEDED", !.resultId = i]
          /\ committed' = [committed EXCEPT ![i] = TRUE]
          /\ Goto(i, "auditOk")
          /\ UNCHANGED <<faults, thrown, failedAt, cursor, chatIdx>>
       \/ /\ run.status # "RUNNING"
          /\ Goto(i, "auditOk")
          /\ UNCHANGED <<results, run, committed, faults, thrown, failedAt, cursor, chatIdx>>
       \/ /\ StoreFault
          /\ Throw(i, PlainError, "finalTx")
          /\ UNCHANGED <<results, run, committed>>
    /\ UNCHANGED <<snapshot, engine, audit, txSaw, promoted>>

\* ------------------------------------------------------------ audit, failure
\* writeAuditLog({ action: 'QC_RUN_PROCESS', meta: { resultId } }), inside the try
AuditOk(i) ==
    /\ pc[i] = "auditOk"
    /\ \/ /\ audit' = [audit EXCEPT ![i] =
                 Append(@, [status |-> "OK", resultId |-> i, code |-> "", category |-> ""])]
          /\ Goto(i, "done")
          /\ UNCHANGED <<faults, thrown, failedAt, cursor, chatIdx>>
       \/ /\ StoreFault
          /\ Throw(i, PlainError, "audit")
          /\ UNCHANGED audit
    /\ UNCHANGED <<run, snapshot, engine, results, txSaw, promoted, committed>>

\* catch (err): await runRef.update({ status: 'FAILED', completedAt, error: publicErr })
CatchUpdate(i) ==
    /\ pc[i] = "catch"
    /\ \/ /\ run' = [run EXCEPT !.status = "FAILED", !.error = publicErr(thrown[i])]
          /\ Goto(i, "auditFail")
          /\ UNCHANGED faults
       \/ /\ StoreFault
          /\ Reject(i)
          /\ UNCHANGED run
    /\ UNCHANGED <<snapshot, engine, results, audit, locals>>

\* writeAuditLog({ ..., meta: { status: 'FAILED', code, category } }), in the catch
AuditFail(i) ==
    /\ pc[i] = "auditFail"
    /\ \/ /\ audit' = [audit EXCEPT ![i] =
                 Append(@, [status |-> "FAILED", resultId |-> NoResultId,
                            code |-> publicErr(thrown[i]).code,
                            category |-> publicErr(thrown[i]).category])]
          /\ Goto(i, "done")
          /\ UNCHANGED faults
       \/ /\ StoreFault
          /\ Reject(i)
          /\ UNCHANGED audit
    /\ UNCHANGED <<run, snapshot, engine, results, locals>>

\* ------------------------------------------------------------ environment
InFlight == {"reread", "loadRules", "loadInput", "singleBatch", "createResult",
             "aggChunk", "chatCreate", "chatChunk", "finalTx", "auditOk", "catch",
             "auditFail"}

\* An external actor cancels the run, which is possible only while QUEUED.
Cancel ==
    /\ run.status = "QUEUED"
    /\ run' = [run EXCEPT !.status = "CANCELLED"]
    /\ UNCHANGED <<snapshot, engine, results, audit, faults, pc, locals>>

processQcRun(i) ==
    \/ BeginTx(i)
    \/ Reread(i)
    \/ LoadRules(i)
    \/ LoadInput(i)
    \/ SingleBatch(i)
    \/ CreateResult(i)
    \/ WriteAggChunk(i)
    \/ CreateChatResult(i)
    \/ WriteChatChunk(i)
    \/ FinalTx(i)
    \/ AuditOk(i)
    \/ CatchUpdate(i)
    \/ AuditFail(i)

Next ==
    \/ \E i \in Inv : processQcRun(i)
    \/ Cancel

Spec == Init /\ [][Next]_vars

TypeOK ==
    /\ run.status \in RunStatus
    /\ run.resultId \in {NoResultId} \cup Inv
    /\ faults \in 0..MaxFaults
    /\ \A i \in Inv : pc[i] \in InFlight \cup {"idle", "done", "threw", "crashed"}

\* ------------------------------------------------------------ engine calls
\* runQc is called with a request and returns.
RunQcCall ==
    /\ call = "none"
    /\ \E req \in RunQcRequests :
         /\ request' = req
         /\ response' = runQc(req)
    /\ call' = "runQc"
    /\ UNCHANGED orchestrator

\* combineAggregatedRuleDocs is called with the docs of every chat and returns.
CombineCall ==
    /\ call = "none"
    /\ \E req \in CombineRequests :
         /\ request' = req
         /\ response' = combineAggregatedRuleDocs(req)
    /\ call' = "combine"
    /\ UNCHANGED orchestrator

\* combineRunSummaryFromChats is called with the summaries of the chats and returns.
CombineSummaryCall ==
    /\ call = "none"
    /\ \E req \in SummaryRequests :
         /\ request' = req
         /\ response' = combineRunSummaryFromChats(req)
    /\ call' = "combineSummary"
    /\ UNCHANGED orchestrator

\* The caller has taken the returned value.
Return ==
    /\ call # "none"
    /\ call' = "none"
    /\ request' = <<>>
    /\ response' = <<>>
    /\ UNCHANGED orchestrator

\* The engine and the aggregator on their own: no run is being processed.
InitEngine ==
    /\ InitRun([ref |-> InlineRef, rules |-> 0, chats |-> 1, leading |-> <<>>])
    /\ EngineIdle

NextEngine ==
    \/ RunQcCall
    \/ CombineCall
    \/ CombineSummaryCall
    \/ Return

SpecEngine == InitEngine /\ [][NextEngine]_vars

\* splitTranscriptIntoChats is called with a text of up to MaxLines lines of
\* every kind and returns.
SplitCall ==
    /\ call = "none"
    /\ \E n \in 0..MaxLines : \E kinds \in [1..n -> LineKinds] :
         /\ request' = Text(kinds)
         /\ response' = splitTranscriptIntoChats(Text(kinds))
    /\ call' = "split"
    /\ UNCHANGED orchestrator

NextSplit ==
    \/ SplitCall
    \/ Return

\* The splitter on its own.
SpecSplit == InitEngine /\ [][NextSplit]_vars

\* ------------------------------------------------------------ vocabulary
\* Positions at which runQc has been evaluated by the invocation.
PostEval == {"singleBatch", "createResult", "aggChunk", "chatCreate", "chatChunk",
             "finalTx", "auditOk"}

\* Steps of the try block that come before the final commit.
PreCommitSteps == {"loadRules", "validate", "loadInput", "persist", "finalTx"}

\* The invocation has evaluated nothing and written nothing.
NoOp(i) ==
    /\ pc[i] \notin PostEval
    /\ ~results[i].exists
    /\ audit[i] = <<>>

\* The documents hold exactly the orders 0..n-1, each once.
OneRecordPerRule(commits, n) ==
    /\ NumDocs(commits) = n
    /\ Orders(commits) = 0..(n - 1)

\* ------------------------------------------------------------ C1
\* C1 (as claimed): of two invocations running concurrently on a run that was
\* QUEUED, exactly one performs QUEUED->RUNNING, and the one that did not is a
\* no-op: it evaluates no rules and writes no result, rule result, run update
\* or audit record.
C1_DuplicateInvocationIsNoOp ==
    /\ Cardinality({i \in Inv : promoted[i]}) <= 1
    /\ \A i, j \in Inv :
         (i # j /\ promoted[j] /\ pc[j] \in InFlight /\ txSaw[i] = "RUNNING")
            => NoOp(i)

\* ------------------------------------------------------------ C2
\* C2: whenever the run is SUCCEEDED, its resultId names an existing Result
\* that is not WRITING and already holds one rule-result record per rule of
\* the snapshot and, for a multi-chat run, one chat-result record per chat,
\* each with one rule-result record per rule.
C2_SucceededResultFullyWritten ==
    run.status = "SUCCEEDED" =>
        /\ run.resultId \in Inv
        /\ results[run.resultId].exists
        /\ results[run.resultId].writeState # "WRITING"
        /\ OneRecordPerRule(results[run.resultId].ruleResults, ruleCount)
        /\ multiChatEnabled(chatCount) =>
             /\ Len(results[run.resultId].chatResults) = chatCount
             /\ \A c \in 1..chatCount :
                  /\ results[run.resultId].chatResults[c].index = c - 1
                  /\ OneRecordPerRule(results[run.resultId].chatResults[c].ruleResults,
                                      ruleCount)

\* A multi-chat run with rules has been committed SUCCEEDED by the two-phase path.
C2_Witness ==
    /\ run.status = "SUCCEEDED"
    /\ multiChatEnabled(chatCount)
    /\ ruleCount > 0
    /\ results[run.resultId].writeState = "COMPLETE"

C4_FailureBeforeCommitLeavesCleanFailed ==
    \A i \in Inv :
        (failedAt[i] \in PreCommitSteps /\ pc[i] \in {"auditFail", "done"}) =>
            /\ run.status = "FAILED"
            /\ run.error # NoError
            /\ run.resultId = NoResultId
            /\ results[i].exists => results[i].writeState = "WRITING"

\* ------------------------------------------------------------ C5
\* C5 (as claimed): in every reachable state a FAILED run carries an error
\* object and a SUCCEEDED run carries none.
C5_ErrorIffFailed ==
    /\ run.status = "FAILED" => run.error # NoError
    /\ run.status = "SUCCEEDED" => run.error = NoError

\* ------------------------------------------------------------ C6
\* C6 (as claimed): handling a failed audit write of an invocation that has
\* committed the run as SUCCEEDED leaves the run's status, resultId and
\* (absent) error unchanged.
C6_AuditFailureKeepsSucceeded ==
    [][\A i \in Inv :
          (/\ failedAt[i] = "audit"
           /\ committed[i]
           /\ run.status = "SUCCEEDED"
           /\ pc'[i] # pc[i])
             => (/\ run'.status = "SUCCEEDED"
                 /\ run'.resultId = run.resultId
                 /\ run'.error = run.error)]_vars

\* ------------------------------------------------------------ C7
\* C7 (as claimed): the status of the run only ever changes QUEUED->RUNNING,
\* RUNNING->SUCCEEDED or RUNNING->FAILED (or QUEUED->CANCELLED by the external
\* cancel); a SUCCEEDED, FAILED or CANCELLED status never changes again.
C7_OnlyLifecycleTransitions ==
    [][run'.status # run.status =>
          <<run.status, run'.status>> \in
              { <<"QUEUED", "RUNNING">>, <<"RUNNING", "SUCCEEDED">>,
                <<"RUNNING", "FAILED">>, <<"QUEUED", "CANCELLED">> }]_vars

\* ------------------------------------------------------------ C8
\* C8: once the run is CANCELLED, every step of every invocation leaves it
\* CANCELLED, and no Result, rule-result record or QC_RUN_PROCESS audit
\* record exists afterwards.
C8_CancelledRunIsNeverProcessed ==
    [][run.status = "CANCELLED" =>
          /\ run'.status = "CANCELLED"
          /\ \A i \in Inv : ~results'[i].exists /\ audit'[i] = <<>>]_vars

\* An invocation that found the run CANCELLED has returned.
C8_Witness ==
    /\ run.status = "CANCELLED"
    /\ \E i \in Inv : pc[i] = "done" /\ txSaw[i] = "CANCELLED"

\* ------------------------------------------------------------ C9
\* C9: every step of an invocation that finds the run SUCCEEDED, FAILED or
\* CANCELLED in its first transaction leaves the run record, all Result,
\* rule-result and chat-result records and the audit log unchanged.
C9_InvocationOnTerminalRunIsNoOp ==
    [][\A i \in Inv :
          (/\ pc'[i] # pc[i]
           /\ \/ pc[i] = "idle" /\ run.status \in Terminal
              \/ txSaw[i] \in Terminal)
             => (run' = run /\ results' = results /\ audit' = audit)]_vars

\* An invocation that found the run SUCCEEDED has returned.
C9_Witness ==
    \E i \in Inv : pc[i] = "done" /\ txSaw[i] = "SUCCEEDED"

\* ------------------------------------------------------------ C10
\* C10 (as claimed): an invocation that committed RUNNING and ran to its end
\* without an audit fault has written exactly one QC_RUN_PROCESS record; the
\* record reports success with the invocation's resultId iff the invocation
\* committed the run as SUCCEEDED, and otherwise reports FAILED with the
\* error's code and category.
C10_OneAuditRecordMatchingOutcome ==
    \A i \in Inv :
        (promoted[i] /\ pc[i] = "done" /\ failedAt[i] # "audit") =>
            /\ Len(audit[i]) = 1
            /\ audit[i][1].status = "OK" <=> committed[i]
            /\ committed[i] => audit[i][1].resultId = i
            /\ ~committed[i] =>
                 /\ audit[i][1].status = "FAILED"
                 /\ audit[i][1].code = publicErr(thrown[i]).code
                 /\ audit[i][1].category = publicErr(thrown[i]).category

\* ------------------------------------------------------------ C11
\* s is an initial part of t: every document of s is in t, unchanged.
IsPrefix(s, t) ==
    /\ Len(s) <= Len(t)
    /\ \A k \in 1..Len(s) : s[k] = t[k]

\* C11: once a Result exists, every step keeps it and its expectedRuleCount,
\* changes its writeState only by the flip WRITING->COMPLETE (so at most
\* once), and keeps every rule-result and chat-result record created so far
\* as it was; records are only ever added.
C11_ResultsAreCreateOnly ==
    [][\A r \in Inv :
          results[r].exists =>
             /\ results'[r].exists
             /\ results'[r].expectedRuleCount = results[r].expectedRuleCount
             /\ \/ results'[r].writeState = results[r].writeState
                \/ /\ results[r].writeState = "WRITING"
                   /\ results'[r].writeState = "COMPLETE"
             /\ IsPrefix(results[r].ruleResults, results'[r].ruleResults)
             /\ Len(results[r].chatResults) <= Len(results'[r].chatResults)
             /\ \A c \in 1..Len(results[r].chatResults) :
                  /\ results'[r].chatResults[c].index = results[r].chatResults[c].index
                  /\ IsPrefix(results[r].chatResults[c].ruleResults,
                              results'[r].chatResults[c].ruleResults)]_vars

\* A Result written in two chunks has been flipped to COMPLETE.
C11_Witness ==
    \E r \in Inv :
        /\ results[r].writeState = "COMPLETE"
        /\ Len(results[r].ruleResults) = 2

\* ------------------------------------------------------------ C13
\* C13 (as claimed): once an invocation has handled the failure of the fetch
\* through the integration connector (integration not found, unknown
\* connector, missing or unusable credential, upstream HTTP error), the run is
\* FAILED with a public error of category INTEGRATION.
C13_IntegrationFailureIsIntegrationError ==
    \A i \in Inv :
        (/\ run.inputSource = "INTEGRATION"
         /\ run.integration # "OK"
         /\ failedAt[i] = "loadInput"
         /\ pc[i] \in {"auditFail", "done"})
            => /\ run.status = "FAILED"
               /\ run.error.category = "INTEGRATION"

\* ------------------------------------------------------------ C14
\* The run is an UPLOAD run whose storagePath is missing or not under
\* tenants/{tenantId}/uploads/{runId}/ of this tenant and run.
BadUploadRef ==
    /\ run.inputSource = "UPLOAD"
    /\ \/ Len(run.storagePath) < Len(expectedPrefix)
       \/ SubSeq(run.storagePath, 1, Len(expectedPrefix)) # expectedPrefix

\* C14: for such a run no invocation ever gets past the reference check (so
\* nothing is downloaded or evaluated) and no Result is ever created, and the
\* step by which an invocation handles the rejected reference leaves the run
\* FAILED with a VALIDATION error that is not retryable.
C14_BadUploadRefFailsValidation ==
    [][BadUploadRef =>
          /\ \A i \in Inv :
               /\ pc'[i] \notin PostEval
               /\ failedAt'[i] # "loadInput"
               /\ ~results'[i].exists
          /\ \A i \in Inv :
               (pc[i] = "catch" /\ failedAt[i] = "validate" /\ pc'[i] = "auditFail")
                  => /\ run'.status = "FAILED"
                     /\ run'.error.category = "VALIDATION"
                     /\ run'.error.retryable = FALSE]_vars

\* An invocation has failed a run whose storagePath names another run's upload.
C14_Witness ==
    /\ run.storagePath = <<"tenants", TenantId, "uploads", "r2", "f">>
    /\ run.status = "FAILED"
    /\ run.error.code = "UPLOAD_INVALID_STORAGE_PATH"
    /\ \E i \in Inv : pc[i] = "done" /\ failedAt[i] = "validate"

\* ------------------------------------------------------------ C16
\* runQc has returned a result for a request with a threshold in [0, 1].
RunQcReturned ==
    /\ call = "runQc"
    /\ ~response.threw

\* C16: if every rule of the request is disabled or evaluates to SKIP (an
\* empty rule list included), runQc returns overallScore = 1, overallOutcome =
\* PASS and no failedRuleIds, for every passScoreThreshold in [0, 1].
C16_AllSkippedIsVacuousPass ==
    (/\ RunQcReturned
     /\ \A k \in 1..Len(request.rules) :
          \/ ~request.rules[k].enabled
          \/ response.ruleResults[k].outcome = "SKIP")
        => /\ response.overallScore.num = response.overallScore.den
           /\ response.overallOutcome = "PASS"
           /\ response.failedRuleIds = <<>>

\* runQc has returned for a disabled rule that would fail, with threshold 1.
C16_Witness ==
    /\ RunQcReturned
    /\ Len(request.rules) >= 1
    /\ \A k \in 1..Len(request.rules) :
          ~request.rules[k].enabled /\ request.rules[k].verdict = "FAIL"
    /\ request.options.passScoreThreshold = Scale

\* ------------------------------------------------------------ C17
\* C17: with blockerFailureForcesFail enabled, a rule with outcome FAIL and
\* severity BLOCKER makes runQc return overallOutcome = FAIL, whatever the
\* weights and the threshold in [0, 1].
C17_BlockerFailForcesFail ==
    (/\ RunQcReturned
     /\ request.options.blockerFailureForcesFail
     /\ \E k \in 1..Len(response.ruleResults) :
          /\ response.ruleResults[k].outcome = "FAIL"
          /\ response.ruleResults[k].severity = "BLOCKER")
        => response.overallOutcome = "FAIL"

\* runQc has returned for a failing BLOCKER rule of weight 0 with threshold 0:
\* the weighted score meets the threshold.
C17_Witness ==
    /\ RunQcReturned
    /\ request.options.blockerFailureForcesFail
    /\ request.options.passScoreThreshold = 0
    /\ \E k \in 1..Len(response.ruleResults) :
          /\ response.ruleResults[k].outcome = "FAIL"
          /\ response.ruleResults[k].severity = "BLOCKER"
          /\ response.ruleResults[k].weight = 0
    /\ ~belowThreshold(weightedScore(response.ruleResults), 0)

\* ------------------------------------------------------------ C18
\* The input kinds a rule type is written for: text rules read a text, or a
\* record through their fieldPath.
KindsOf(type) ==
    CASE type \in TextRuleTypes -> {"text", "record"}
      [] type \in RecordRuleTypes -> {"record"}
      [] type \in TableRuleTypes -> {"table"}
      [] type \in AudioRuleTypes -> {"audio"}
      [] OTHER -> InputKinds

\* The deterministic rule types: all but the AI-assisted ones.
DeterministicRuleTypes == RuleTypes \ AiRuleTypes

\* C18 (as claimed): an enabled rule of a deterministic type evaluated on an
\* input of a kind its type is not written for ends in ERROR, for text,
\* record, table and audio rules alike.
C18_KindMismatchIsError ==
    (/\ RunQcReturned
     /\ Len(request.rules) = 1
     /\ request.rules[1].enabled
     /\ request.rules[1].type \in DeterministicRuleTypes
     /\ request.input.kind \notin KindsOf(request.rules[1].type))
        => response.ruleResults[1].outcome = "ERROR"

\* C18 (amended): an enabled record, table or audio rule evaluated on an
\* input of another kind ends in ERROR; an enabled text rule never ends in
\* ERROR because of the input's kind: on an input it can read no text from
\* (a table, an audio, a record without a value at its fieldPath) it ends in
\* SKIP.
C18_KindMismatchIsErrorExceptText ==
    (/\ RunQcReturned
     /\ Len(request.rules) = 1
     /\ request.rules[1].enabled)
        => /\ (/\ request.rules[1].type \in RecordRuleTypes \cup TableRuleTypes \cup AudioRuleTypes
               /\ request.input.kind \notin KindsOf(request.rules[1].type))
                  => response.ruleResults[1].outcome = "ERROR"
           /\ (/\ request.rules[1].type \in TextRuleTypes
               /\ ~asTextFromInput(request.input, request.rules[1].fieldPath))
                  => response.ruleResults[1].outcome = "SKIP"

\* runQc has returned for an enabled table rule on a text input.
C18_Witness ==
    /\ RunQcReturned
    /\ Len(request.rules) = 1
    /\ request.rules[1].enabled
    /\ request.rules[1].type \in TableRuleTypes
    /\ request.input.kind = "text"

\* ------------------------------------------------------------ C19
\* The evaluation of the rule on the request's input faults: its evaluator
\* throws (a kind it does not accept, an invalid pattern).
Faults(req, rule) ==
    /\ rule.enabled
    /\ evalByType([input |-> req.input, aiSignals |-> req.aiSignals], rule) = "THROW"

\* The sequence without its k-th element.
Without(seq, k) == SubSeq(seq, 1, k - 1) \o SubSeq(seq, k + 1, Len(seq))

\* The outcomes of the results, in order.
Outcomes(ruleResults) == [k \in 1..Len(ruleResults) |-> ruleResults[k].outcome]

\* C19: for a threshold in [0, 1] runQc returns, with exactly one result per
\* rule in rule order; a rule whose evaluation faults has outcome ERROR, and
\* the outcomes of the other rules are those runQc returns for the rule list
\* without the faulting rule.
C19_RuleFaultsAreAbsorbed ==
    (/\ call = "runQc"
     /\ request.options.passScoreThreshold \in 0..Scale)
        => /\ ~response.threw
           /\ Len(response.ruleResults) = Len(request.rules)
           /\ \A k \in 1..Len(request.rules) :
                /\ response.ruleResults[k].ruleId = request.rules[k].ruleId
                /\ Faults(request, request.rules[k]) =>
                     /\ response.ruleResults[k].outcome = "ERROR"
                     /\ Without(Outcomes(response.ruleResults), k)
                          = Outcomes(runQc([request EXCEPT !.rules = Without(@, k)]).ruleResults)

\* runQc has returned for a list whose first rule faults and whose second fails.
C19_Witness ==
    /\ RunQcReturned
    /\ Len(request.rules) >= 2
    /\ Faults(request, request.rules[1])
    /\ response.ruleResults[2].outcome = "FAIL"

\* ------------------------------------------------------------ C20
\* C20: combineAggregatedRuleDocs gives each rule the status of maximum rank
\* among its docs in the chats, under NOT_EVALUATED(0) < PASS(1) < FAIL(2) <
\* ERROR(3): no chat's status of the rule ranks above the combined status,
\* and some chat has the combined status.
C20_CombinedStatusIsWorstRank ==
    call = "combine" =>
        /\ Len(response) = Len(request[1])
        /\ \A i \in 1..Len(response) :
             /\ \A c \in 1..Len(request) :
                  statusRank(request[c][i].status) <= statusRank(response[i].status)
             /\ \E c \in 1..Len(request) : request[c][i].status = response[i].status

\* The aggregator has returned for a rule that passes in the last chat and
\* fails in an earlier one.
C20_Witness ==
    /\ call = "combine"
    /\ Len(request) >= 2
    /\ request[1][1].status = "FAIL"
    /\ request[Len(request)][1].status = "PASS"
    /\ response[1].status = "FAIL"

\* ------------------------------------------------------------ C12
\* The evaluation of the rule at position p of the snapshot faults on the
\* run's input.
RuleFaults(p) == Faults(runRequest, ruleAt(p))

\* C12: when the snapshot has a rule whose evaluation faults (one of its
\* leading rules: FillerRule does not fault) and no store
\* call was rejected, an invocation that started the run and has returned
\* leaves it SUCCEEDED with a Result; among the persisted rule results (of the
\* run and of each chat) exactly those of the faulting rules have status
\* ERROR, each with a RULE_EVALUATION error that is not retryable, and the
\* others carry no error.
C12_RuleErrorDoesNotFailRun ==
    \A i \in Inv :
        (/\ promoted[i]
         /\ pc[i] = "done"
         /\ faults = 0
         /\ \E p \in 0..(Min(ruleCount, Len(ruleSnapshot)) - 1) : RuleFaults(p))
            => /\ run.status = "SUCCEEDED"
               /\ run.resultId \in Inv
               /\ results[run.resultId].exists
               /\ \A p \in Orders(results[run.resultId].ruleResults) :
                    /\ aggregatedRuleDoc(p).status = "ERROR" <=> RuleFaults(p)
                    /\ aggregatedRuleDoc(p).error =
                          IF RuleFaults(p)
                          THEN asPublicError("RULE_EVALUATION", "RULE_EVALUATION_ERROR", FALSE)
                          ELSE NoError
               /\ \A c \in 1..Len(results[run.resultId].chatResults) :
                    \A p \in Orders(results[run.resultId].chatResults[c].ruleResults) :
                        /\ perChatRuleDoc(p).status = "ERROR" <=> RuleFaults(p)
                        /\ RuleFaults(p) =>
                              /\ perChatRuleDoc(p).error.category = "RULE_EVALUATION"
                              /\ perChatRuleDoc(p).error.retryable = FALSE

\* A multi-chat run whose second rule faults has been processed to its end.
C12_Witness ==
    /\ run.status = "SUCCEEDED"
    /\ faults = 0
    /\ multiChatEnabled(chatCount)
    /\ RuleFaults(1)
    /\ ~RuleFaults(0)
    /\ \E i \in Inv : promoted[i] /\ pc[i] = "done"

\* ------------------------------------------------------------ C15
\* The docs hold the orders 0..n-1 and the doc of order k carries the ruleId
\* and the name of the k-th rule of the snapshot; doc(p) is the doc at
\* position p of the array the commits were sliced from.
InRuleOrder(commits, n, doc(_)) ==
    /\ NumDocs(commits) = n
    /\ {<<d.order, d.ruleId, d.ruleName>> : d \in {doc(p) : p \in Orders(commits)}}
         = {<<k, ruleAt(k).ruleId, ruleAt(k).name>> : k \in 0..(n - 1)}

\* C15: under the Result of a SUCCEEDED run, the order values of the
\* rule-result records (of the run, and of each chat) are exactly 0..N-1,
\* each once, and the record of order k has the ruleId and the name of the
\* k-th rule of the snapshot, however the records were cut into chunks.
\* The property speaks of the run document and of the Result it points to
\* only (the snapshot never changes), so it is stated for every step that
\* changes the status, the resultId or that Result and leaves the run
\* SUCCEEDED: it then holds in every state in which the run is SUCCEEDED.
C15_OrderMatchesRuleSnapshot ==
    [][(/\ run'.status = "SUCCEEDED"
        /\ \/ run'.status # run.status
           \/ run'.resultId # run.resultId
           \/ results'[run'.resultId] # results[run'.resultId])
          => /\ InRuleOrder(results'[run'.resultId].ruleResults, ruleCount,
                            aggregatedRuleDoc)
             /\ \A c \in 1..chatCount :
                  c <= Len(results'[run'.resultId].chatResults)
                    => InRuleOrder(results'[run'.resultId].chatResults[c].ruleResults,
                                   ruleCount, perChatRuleDoc)]_vars

\* A run whose rule results were written in two chunks is SUCCEEDED.
C15_Witness ==
    /\ run.status = "SUCCEEDED"
    /\ ruleCount > chunkSize
    /\ Len(results[run.resultId].ruleResults) = 2

\* ------------------------------------------------------------ C21
\* The statuses of rule i in the chats the aggregator was called with.
StatusesOf(i) == {request[c][i].status : c \in 1..Len(request)}

\* C21 as stated: the combined status is ERROR if any chat's is ERROR, else
\* FAIL if any is FAIL, else NOT_EVALUATED if any is NOT_EVALUATED, else PASS.
C21_StatusCascade ==
    call = "combine" =>
        \A i \in 1..Len(response) :
            response[i].status =
                IF "ERROR" \in StatusesOf(i) THEN "ERROR"
                ELSE IF "FAIL" \in StatusesOf(i) THEN "FAIL"
                ELSE IF "NOT_EVALUATED" \in StatusesOf(i) THEN "NOT_EVALUATED"
                ELSE "PASS"

\* C21, amended: the combined status is ERROR if any chat's is ERROR, else
\* FAIL if any is FAIL, else PASS if any is PASS, else NOT_EVALUATED.
C21_StatusCascadePassBeforeNotEvaluated ==
    call = "combine" =>
        \A i \in 1..Len(response) :
            response[i].status =
                IF "ERROR" \in StatusesOf(i) THEN "ERROR"
                ELSE IF "FAIL" \in StatusesOf(i) THEN "FAIL"
                ELSE IF "PASS" \in StatusesOf(i) THEN "PASS"
                ELSE "NOT_EVALUATED"

\* The aggregator has returned PASS for a rule that passes in one chat and is
\* not evaluated in another.
C21_Witness ==
    /\ call = "combine"
    /\ StatusesOf(1) = {"PASS", "NOT_EVALUATED"}
    /\ response[1].status = "PASS"

\* ------------------------------------------------------------ C22
\* The ids in a sequence of rule ids.
IdsIn(ids) == {ids[k] : k \in DOMAIN ids}

\* C22: the run summary combined from the chats' summaries has overallOutcome
\* FAIL exactly when some chat's outcome is FAIL; its overallScore is a chat's
\* score that no chat's score is below (1 when there is no chat); its
\* failedRuleIds hold exactly the ids of the chats' failedRuleIds, each once.
C22_RunSummaryCombinesChats ==
    call = "combineSummary" =>
        /\ response.overallOutcome = "FAIL"
             <=> \E c \in 1..Len(request) : request[c].overallOutcome = "FAIL"
        /\ response.overallOutcome \in {"PASS", "FAIL"}
        /\ IF Len(request) = 0
           THEN response.overallScore.num = response.overallScore.den
           ELSE /\ \E c \in 1..Len(request) : response.overallScore = request[c].overallScore
                /\ \A c \in 1..Len(request) :
                     scoreLeq(response.overallScore, request[c].overallScore)
        /\ IdsIn(response.failedRuleIds)
             = UNION {IdsIn(request[c].failedRuleIds) : c \in 1..Len(request)}
        /\ Cardinality(IdsIn(response.failedRuleIds)) = Len(response.failedRuleIds)

\* The summaries of two chats were combined: the second fails with the lower
\* score, and both name rule 1 as failed.
C22_Witness ==
    /\ call = "combineSummary"
    /\ Len(request) >= 2
    /\ request[1].overallOutcome = "PASS"
    /\ request[2].overallOutcome = "FAIL"
    /\ request[2].overallScore.num < request[1].overallScore.num
    /\ request[1].failedRuleIds = << <<"rule", 1>> >>
    /\ request[2].failedRuleIds = << <<"rule", 1>>, <<"rule", 2>> >>
    /\ response.overallOutcome = "FAIL"

\* ------------------------------------------------------------ C23
\* The splitter has returned for the text in request.
SplitReturned == call = "split"

\* The segments the anchors cut the lines into, each from an anchor to the
\* next one (to the end of the text after the last), that rebuild to a text
\* of at least minChars characters.
NonTrivialSegments(lines, anchors) ==
    { seg \in { [start |-> a,
                 end |-> IF \E b \in anchors : b > a
                         THEN CHOOSE b \in anchors : b > a /\ \A d \in anchors : d > a => b <= d
                         ELSE Len(lines)] : a \in anchors } :
        textLength(rebuildFromLines(lines, seg.start, seg.end)) >= minChars }

\* The anchors each strategy finds in the lines.
AnchorsOf(strategy, lines) ==
    CASE strategy = "CHAT_ID" -> chatIdStarts(lines)
      [] strategy = "SEPARATORS" -> IF sepStarts(lines) = {} THEN {} ELSE {0} \cup sepStarts(lines)
      [] strategy = "SPEAKER_BLOCKS" -> participantStarts(lines)
      [] OTHER -> {}

Qualifies(strategy, lines) ==
    Cardinality(NonTrivialSegments(lines, AnchorsOf(strategy, lines))) >= 2

\* The first strategy, in the fixed order, that qualifies; SINGLE if none does.
FirstQualifying(lines) ==
    IF Qualifies("CHAT_ID", lines) THEN "CHAT_ID"
    ELSE IF Qualifies("SEPARATORS", lines) THEN "SEPARATORS"
    ELSE IF Qualifies("SPEAKER_BLOCKS", lines) THEN "SPEAKER_BLOCKS"
    ELSE "SINGLE"

\* C23: the splitter's strategy is the first of chat-id headers, separators,
\* speaker blocks that cuts the normalized text into at least two segments of
\* at least minChars characters, and its chats are those segments; when no
\* strategy does, the strategy is SINGLE and the one chat is the whole text.
C23_FirstQualifyingStrategy ==
    SplitReturned =>
        /\ response.strategy = FirstQualifying(trimLines(request))
        /\ IF response.strategy = "SINGLE"
           THEN /\ Len(response.chats) = 1
                /\ response.chats[1].text = trimLines(request)
           ELSE /\ {response.chats[k].text : k \in 1..Len(response.chats)}
                     = { rebuildFromLines(trimLines(request), seg.start, seg.end) :
                           seg \in NonTrivialSegments(trimLines(request),
                                       AnchorsOf(response.strategy, trimLines(request))) }
                /\ Len(response.chats)
                     = Cardinality(NonTrivialSegments(trimLines(request),
                                       AnchorsOf(response.strategy, trimLines(request))))

\* The splitter has passed over the chat-id headers of a text (two headers,
\* one segment of them too short) and split it at a separator.
C23_Witness ==
    /\ SplitReturned
    /\ Cardinality(chatIdStarts(trimLines(request))) >= 2
    /\ response.strategy = "SEPARATORS"

\* ------------------------------------------------------------ C24
\* C24: the splitter returns for every text, with at least one chat, the
\* chats indexed 0..n-1 in the order they occur in the text, every chat with
\* a title; a SINGLE result has exactly one chat and a warning, any other
\* result at least two chats.
C24_ChatsIndexedInTextOrder ==
    SplitReturned =>
        /\ Len(response.chats) >= 1
        /\ \A k \in 1..Len(response.chats) :
             /\ response.chats[k].index = k - 1
             /\ response.chats[k].title # <<>>
        /\ \A k \in 1..(Len(response.chats) - 1) :
             \A a \in 1..Len(response.chats[k].text) :
                \A b \in 1..Len(response.chats[k + 1].text) :
                    response.chats[k].text[a].id < response.chats[k + 1].text[b].id
        /\ response.strategy = "SINGLE"
             => Len(response.chats) = 1 /\ response.warning # ""
        /\ response.strategy # "SINGLE" => Len(response.chats) >= 2

\* The splitter has returned three chats of a text with three chat-id headers.
C24_Witness ==
    /\ SplitReturned
    /\ response.strategy = "CHAT_ID"
    /\ Len(response.chats) = 3

\* ------------------------------------------------------------ C30
\* The non-blank lines of a text.
NonBlank(lines) == {lines[k] : k \in {j \in 1..Len(lines) : lines[j].kind # "BLANK"}}

\* C30 as stated: when the splitter returns two or more chats, every
\* non-blank line of the normalized text is in the text of exactly one chat.
C30_NoLineLeftOut ==
    (SplitReturned /\ Len(response.chats) >= 2) =>
        \A line \in NonBlank(trimLines(request)) :
            Cardinality({k \in 1..Len(response.chats) :
                            line \in NonBlank(response.chats[k].text)}) = 1

\* ------------------------------------------------------------ C29
\* C29 as stated: whenever runQc returns overallOutcome FAIL, failedRuleIds is
\* not empty, i.e. some rule has outcome FAIL.
C29_FailNamesAFailedRule ==
    (RunQcReturned /\ response.overallOutcome = "FAIL")
        => /\ response.failedRuleIds # <<>>
           /\ \E k \in 1..Len(response.ruleResults) : response.ruleResults[k].outcome = "FAIL"

\* ------------------------------------------------------------ C25
\* The run takes the two-phase write path.
TwoPhaseRun == ~canSingleBatch(multiChatEnabled(chatCount), ruleCount)

\* C25 as stated: in every reachable state of a two-phase run, a Result is
\* COMPLETE only if the run is SUCCEEDED and references it, and the Result a
\* SUCCEEDED run references is COMPLETE.
C25_CompleteIffSucceeded ==
    TwoPhaseRun =>
        /\ \A r \in Inv :
             results[r].writeState = "COMPLETE"
                => run.status = "SUCCEEDED" /\ run.resultId = r
        /\ run.status = "SUCCEEDED" => results[run.resultId].writeState = "COMPLETE"

\* ------------------------------------------------------------ C26
\* C26: an invocation creates its Result in one atomic batch, together with
\* the rule results and the run's change to SUCCEEDED, exactly when the input
\* was not split into two or more chats and ruleCount + 2 <= 450; in every
\* other case it creates the Result in WRITING with no rule result and leaves
\* the run as it is, and a Result becomes COMPLETE only from WRITING, while
\* the run is RUNNING.
C26_SingleBatchExactlyWhenItFits ==
    [][\A i \in Inv :
          /\ (~results[i].exists /\ results'[i].exists)
                => IF chatCount < 2 /\ ruleCount + 2 <= 450
                   THEN /\ results'[i].writeState = "ABSENT"
                        /\ NumDocs(results'[i].ruleResults) = ruleCount
                        /\ run'.status = "SUCCEEDED"
                        /\ run'.resultId = i
                   ELSE /\ results'[i].writeState = "WRITING"
                        /\ results'[i].ruleResults = <<>>
                        /\ run' = run
          /\ (results[i].writeState # "COMPLETE" /\ results'[i].writeState = "COMPLETE")
                => /\ results[i].writeState = "WRITING"
                   /\ run.status = "RUNNING"]_vars

\* A single-chat run of 449 rules is RUNNING with its Result in WRITING.
C26_Witness ==
    /\ chatCount = 1
    /\ ruleCount = 449
    /\ run.status = "RUNNING"
    /\ \E i \in Inv : results[i].exists /\ results[i].writeState = "WRITING"

\* ------------------------------------------------------------ C27
\* An invocation that has started keeps running until it returns or rejects: the
\* process does not crash.  Whether a trigger ever starts an invocation is left
\* open, and so is whether a store call is accepted.
Proceeds(i) == pc[i] # "idle" /\ processQcRun(i)

SpecLive == Init /\ [][Next]_vars /\ \A i \in Inv : WF_vars(Proceeds(i))

\* The catch clause's runRef.update({ status: 'FAILED', ... }) of invocation i was rejected.
FinalUpdateRejected(i) == pc[i] = "threw" /\ failedAt[i] # "none"

\* C27: every invocation whose first transaction committed RUNNING is eventually
\* followed by the run being SUCCEEDED or FAILED, unless the store rejected the
\* invocation's final run update.
C27_PromotedRunTerminates ==
    \A i \in Inv :
        (promoted[i] /\ run.status = "RUNNING")
            ~> (run.status \in {"SUCCEEDED", "FAILED"} \/ FinalUpdateRejected(i))

\* ------------------------------------------------------------ C28
\* The positions between the create of the WRITING Result and the final
\* transaction's commit.
ChunkWrites == {"aggChunk", "chatCreate", "chatChunk", "finalTx"}

\* The process running invocation i dies in the middle of the two-phase chunk
\* writes: the invocation takes no further step and nothing it has written is
\* undone.
Crash(i) ==
    /\ pc[i] \in ChunkWrites
    /\ Goto(i, "crashed")
    /\ UNCHANGED <<run, snapshot, engine, results, audit, faults, locals>>

NextCrash ==
    \/ Next
    \/ \E i \in Inv : Crash(i)

SpecCrash == Init /\ [][NextCrash]_vars /\ \A i \in Inv : WF_vars(Proceeds(i))

\* Invocation i died between the create of its WRITING Result and its final
\* transaction.
CrashedMidChunks(i) ==
    /\ pc[i] = "crashed"
    /\ results[i].exists
    /\ ~committed[i]
    /\ failedAt[i] = "none"

\* The Result has exactly expectedRuleCount rule results, no order value twice.
HoldsExpectedRuleResults(result) ==
    /\ NumDocs(result.ruleResults) = result.expectedRuleCount
    /\ Cardinality(Orders(result.ruleResults)) = result.expectedRuleCount

\* C28: when invocation i has crashed in the middle of the two-phase chunk
\* writes, its Result stays WRITING and is never the run's resultId; a Result
\* the run references holds exactly expectedRuleCount rule results with no
\* order value twice; and another invocation in flight on the RUNNING run
\* brings the run to SUCCEEDED with its own Result, unless that invocation
\* crashes as well or the store rejects a call.
C28_CrashedAttemptIsSupersededByRetry ==
    /\ [](\A i \in Inv :
            CrashedMidChunks(i) =>
                /\ results[i].writeState = "WRITING"
                /\ run.resultId # i
                /\ run.resultId # NoResultId
                     => HoldsExpectedRuleResults(results[run.resultId]))
    /\ \A i \in Inv : \A j \in Inv \ {i} :
          (CrashedMidChunks(i) /\ run.status = "RUNNING" /\ pc[j] \in InFlight)
             ~> \/ run.status = "SUCCEEDED" /\ run.resultId \in Inv \ {i}
                \/ pc[j] = "crashed"
                \/ faults > 0

\* Invocation 1 crashed with some of its chunks written, and the run is
\* SUCCEEDED with the complete Result of invocation 2.
C28_Witness ==
    /\ CrashedMidChunks(1)
    /\ results[1].ruleResults # <<>>
    /\ pc[2] = "done"
    /\ txSaw[2] = "RUNNING"
    /\ run.status = "SUCCEEDED"
    /\ run.resultId = 2
    /\ results[2].writeState = "COMPLETE"

====
